---------------------------- MODULE Spec2Model ----------------------------
(***************************************************************************)
(* The paginated query pipeline of iss4e: QueryStreamer                    *)
(* (src/iss4e/db/influxdb.py) pages through a series with LIMIT/OFFSET     *)
(* queries, AsyncLookaheadIterator                                         *)
(* (src/iss4e/util/async_lookahead_iterator.py) prefetches its pages on a  *)
(* thread pool.  Every stream (one QueryStreamer, optionally wrapped) has  *)
(* its own state; the thread pool is shared.                               *)
(*                                                                         *)
(* A series is the rows 1..data[s] in query order, so a row is named by    *)
(* its position and a page is a sequence of positions.  The statements of  *)
(* a fetch task are separate steps, as the worker threads interleave       *)
(* between them.                                                           *)
(***************************************************************************)
EXTENDS Integers, Sequences, FiniteSets, Bags, TLC

\* Bounds of the model.
MaxStreams == 3
MaxPages == 3
MaxParallelism == 2
MaxWorkers == 2
MaxWrites == 2
MaxValueLen == 2
MaxDiscoveries == 2
MaxStatements == 2

VARIABLES
    streams,       \* the streams that were built
    data,          \* data[s]: number of rows the series of stream s holds
    failing,       \* failing[s]: the offsets whose query raises an error
    batch_size,    \* QueryStreamer.batch_size
    offset,        \* QueryStreamer.offset: the next value of count(0, batch_size)
    executor,      \* InfluxDBStreamingClient.async_executor is set
    warm_start,    \* the warm_start argument of AsyncLookaheadIterator
    parallelism,   \* AsyncLookaheadIterator._parallelism
    pending,       \* AsyncLookaheadIterator._pending: task numbers, or None
    submit_count,  \* AsyncLookaheadIterator._submit_count
    run_count,     \* AsyncLookaheadIterator._run_count
    task,          \* task[s][nr + 1]: the future of task nr and where it runs
    awaiting,      \* the task whose result() the consumer is blocked on
    out,           \* what the consumer's next() calls returned or raised
    workq,         \* the executor's work queue, <<s, nr>> in submission order
    max_workers,   \* the executor's thread count
    writes,        \* rows written to the database while streaming
    queries,       \* queries[s]: the bag of the queries executed for stream s
    batched,       \* InfluxDBStreamingClient.batched
    chain,         \* the itertools.chain of an unbatched stream: source, active
    flat,          \* what the next() calls on the chain returned or raised
    db,            \* the series of the measurement: db[j].tags and db[j].rows
    where,         \* the where argument of stream_measurement
    returned,      \* what the calls of stream_measurement returned or raised
    connection     \* the connection of one use of mysql.connect() and its caller

vars == <<streams, data, failing, batch_size, offset, executor, parallelism, pending,
          submit_count, run_count, task, awaiting, out, workq, max_workers,
          writes, warm_start, queries, batched, chain, flat, db, where, returned,
          connection>>

qsVars == <<streams, batch_size, executor, warm_start, parallelism, max_workers,
            batched>>

chainVars == <<chain, flat>>

dbVars == <<db, where, returned>>

mysqlVars == <<connection>>

influxVars == <<streams, data, failing, qsVars, dbVars, offset, pending,
                submit_count, run_count, task, awaiting, out, workq, writes,
                queries, chainVars>>

Streams == 1 .. MaxStreams

\* The page sizes streamed with: single rows, and pages that can be partly filled.
BatchSizes == {1, 2}
MaxBatch == CHOOSE b \in BatchSizes : \A c \in BatchSizes : c <= b

\* Python's None, where a sequence of task numbers is expected.
None == << -1 >>
\* awaiting[s] when the consumer is not inside next().
NoTask == -1

Min(a, b) == IF a < b THEN a ELSE b
Max(a, b) == IF a < b THEN b ELSE a

\* What a call returns or raises.
Return(points) == [kind |-> "page", rows |-> points]
Raise(exc) == [kind |-> exc, rows |-> << >>]
StopIteration == Raise("StopIteration")
QueryExecutionError == Raise("QueryExecutionError")
AssertionError == Raise("AssertionError")
AttributeError == Raise("AttributeError")

(***************************************************************************)
(* The database: SELECT ... LIMIT limit OFFSET off over rows 1..n.         *)
(***************************************************************************)
Select(n, limit, off) ==
    [i \in 1 .. Max(0, Min(off + limit, n) - off) |-> off + i]

(***************************************************************************)
(* more_itertools.peekable over the rows of a result: the rows looked at   *)
(* are kept in a cache and handed out before the rest.                     *)
(***************************************************************************)
Peekable(rows) == [cache |-> << >>, it |-> rows]

\* Mutant: next() for peek(), the row looked at is gone.
PeekedConsuming(p) ==
    IF p.it = << >> THEN p ELSE [cache |-> << >>, it |-> Tail(p.it)]

\* The peekable after peek(None).
Peeked(p) ==
    IF p.cache # << >> \/ p.it = << >> THEN p
    ELSE [cache |-> << Head(p.it) >>, it |-> Tail(p.it)]

\* What peek(None) returns: the first row, or nothing.
Peek(p) ==
    IF p.cache # << >> THEN << Head(p.cache) >>
    ELSE IF p.it = << >> THEN << >> ELSE << Head(p.it) >>

\* The rows the peekable hands out when it is iterated.
Iterate(p) == p.cache \o p.it

\* Mutant: a page shorter than the batch size taken for the end.
FetchStopOnShortPage(s, off) ==
    IF off \in failing[s]
    THEN QueryExecutionError
    ELSE LET points == Select(data[s], batch_size[s], off)
         IN  IF Len(points) < batch_size[s] THEN StopIteration ELSE Return(points)

\* influxdb.py:96-104, the query of one page and the peek into it.
Fetch(s, off) ==
    IF off \in failing[s]
    THEN QueryExecutionError
    ELSE LET points == Peekable(Select(data[s], batch_size[s], off))
         IN  IF Peek(points) = << >>
             THEN StopIteration
             ELSE Return(Iterate(Peeked(points)))

\* influxdb.py:93, the query built from the template.
QueryFormat(off, limit) == [offset |-> off, limit |-> limit]

\* Mutant: a query that fails is executed a second time.
ExecutedWithRetry(s, query) ==
    queries' = [queries EXCEPT ![s] =
                   IF query.offset \in failing[s]
                   THEN @ (+) SetToBag({query}) (+) SetToBag({query})
                   ELSE @ (+) SetToBag({query})]

\* influxdb.py:96, self.query_func(query) is called once.
Executed(s, query) == queries' = [queries EXCEPT ![s] = @ (+) SetToBag({query})]

\* Mutant: count(0) without its step.
NextOffsetStepOne(s) == offset[s] + 1

\* Mutant: the offset of a query that fails is handed out again.
NextOffsetRetried(s) ==
    IF offset[s] \in failing[s] THEN offset[s] ELSE offset[s] + batch_size[s]

\* influxdb.py:87 and 93, next(self.offset) of count(0, batch_size).
NextOffset(s) == offset[s] + batch_size[s]

(***************************************************************************)
(* AsyncLookaheadIterator.__fill_queue: the queue p topped up with the     *)
(* task numbers from sc on.                                                *)
(***************************************************************************)
\* Mutants: the loop test as <=, and the loop without its test for None.
FillCountOneMore(p, n) == IF p = None THEN 0 ELSE Max(0, n - Len(p) + 1)
FillCountNoneUnchecked(p, n) == Max(0, n - Len(p))

\* Mutant: an if for the while, one task at most per fill.
FillCountOnlyOne(p, n) == IF p = None THEN 0 ELSE Min(1, Max(0, n - Len(p)))

FillCount(p, n) == IF p = None THEN 0 ELSE Max(0, n - Len(p))

Filled(p, sc, n) ==
    IF p = None THEN None
    ELSE p \o [i \in 1 .. FillCount(p, n) |-> sc + i - 1]

\* Mutants: pop() for popleft(), and the oldest future read but left in place.
PopRight(q) == <<q[Len(q)], SubSeq(q, 1, Len(q) - 1)>>
PeekLeft(q) == <<Head(q), q>>

\* deque.popleft: the item taken and the rest.
PopLeft(q) == <<Head(q), Tail(q)>>

\* Mutant: the queue dropped on every exception.
AfterRaiseAlwaysDropped(p, result) == None

\* __next__, lines 44-47: the queue after result() raised.
AfterRaise(p, result) == IF result = StopIteration THEN None ELSE p

NewTask == [pc |-> "queued", off |-> -1, res |-> Raise("unset")]

\* Mutant: one submit counter for all the iterators of an executor.
SubmittedShared(s, k) ==
    /\ submit_count' = [t \in Streams |-> submit_count[t] + k]
    /\ task' = [task EXCEPT ![s] = @ \o [i \in 1 .. k |-> NewTask]]
    /\ workq' = workq \o [i \in 1 .. k |-> <<s, submit_count[s] + i - 1>>]

\* __fill_queue, lines 24-25: k tasks submitted to the executor, numbered by
\* the iterator's own counter.
Submitted(s, k) ==
    /\ submit_count' = [submit_count EXCEPT ![s] = @ + k]
    /\ task' = [task EXCEPT ![s] = @ \o [i \in 1 .. k |-> NewTask]]
    /\ workq' = workq \o [i \in 1 .. k |-> <<s, submit_count[s] + i - 1>>]

Calls(s) == Len(out[s]) + (IF awaiting[s] = NoTask THEN 0 ELSE 1)

\* The pages the series of stream s holds.
NumPages(n, b) == (n + b - 1) \div b

\* The consumer pulls until it is two calls past the last page.
CallLimit(s) == NumPages(data[s], batch_size[s]) + 2

(***************************************************************************)
(* itertools.chain.from_iterable over the stream (stream_query, batched    *)
(* False).  A next() on the chain hands out the next row of the active     *)
(* page; when there is none it pulls the next page from its source and     *)
(* hands out the first row of that.  When the pull raises, the chain lets  *)
(* go of its source and raises the same.                                   *)
(***************************************************************************)
NoChain == [source |-> FALSE, active |-> << >>]
NewChain == [source |-> TRUE, active |-> << >>]

Item(row) == [kind |-> "row", rows |-> << row >>]

\* The stream is pulled by the consumer, or by a chain out of rows.
CanPull(s) == batched[s] \/ (chain[s].source /\ chain[s].active = << >>)

\* What the chain does with the outcome of the pull.
Chained(s, result) ==
    IF batched[s]
    THEN UNCHANGED chainVars
    ELSE IF result.kind = "page"
         THEN /\ chain' = [chain EXCEPT ![s].active = Tail(result.rows)]
              /\ flat' = [flat EXCEPT ![s] = Append(@, Item(Head(result.rows)))]
         ELSE /\ chain' = [chain EXCEPT ![s].source = FALSE]
              /\ flat' = [flat EXCEPT ![s] = Append(@, result)]

\* QueryStreamer.__next__ called by the consumer itself (no executor).
SyncNext(s) ==
    /\ ~executor[s]
    /\ CanPull(s)
    /\ Calls(s) < CallLimit(s)
    /\ Chained(s, Fetch(s, offset[s]))
    /\ offset' = [offset EXCEPT ![s] = NextOffset(s)]
    /\ Executed(s, QueryFormat(offset[s], batch_size[s]))
    /\ out' = [out EXCEPT ![s] = Append(@, Fetch(s, offset[s]))]
    /\ UNCHANGED <<data, failing, qsVars, dbVars, mysqlVars, pending, submit_count, run_count,
                   task, awaiting, workq, writes>>

\* AsyncLookaheadIterator.__next__ up to the wait in result().
NextCall(s) ==
    /\ executor[s]
    /\ CanPull(s)
    /\ awaiting[s] = NoTask
    /\ Calls(s) < CallLimit(s)
    /\ LET k == FillCount(pending[s], parallelism[s])
           q == Filled(pending[s], submit_count[s], parallelism[s])
       IN  /\ Submitted(s, k)
           /\ IF q = None
              THEN /\ out' = [out EXCEPT ![s] = Append(@, AttributeError)]
                   /\ Chained(s, AttributeError)
                   /\ UNCHANGED <<pending, awaiting>>
              ELSE /\ awaiting' = [awaiting EXCEPT ![s] = PopLeft(q)[1]]
                   /\ pending' = [pending EXCEPT ![s] = PopLeft(q)[2]]
                   /\ UNCHANGED <<out, chainVars>>
    /\ UNCHANGED <<data, failing, qsVars, dbVars, mysqlVars, offset, run_count, writes, queries>>

\* AsyncLookaheadIterator.__next__ from the return of result() on.
NextReturn(s) ==
    /\ awaiting[s] # NoTask
    /\ task[s][awaiting[s] + 1].pc = "done"
    /\ LET result == task[s][awaiting[s] + 1].res
       IN  /\ out' = [out EXCEPT ![s] = Append(@, result)]
           /\ Chained(s, result)
           /\ awaiting' = [awaiting EXCEPT ![s] = NoTask]
           /\ IF result.kind = "page"
              THEN /\ pending' = [pending EXCEPT ![s] =
                          Filled(@, submit_count[s], parallelism[s])]
                   /\ Submitted(s, FillCount(pending[s], parallelism[s]))
              ELSE /\ pending' = [pending EXCEPT ![s] = AfterRaise(@, result)]
                   /\ UNCHANGED <<submit_count, task, workq>>
    /\ UNCHANGED <<data, failing, qsVars, dbVars, mysqlVars, offset, run_count, writes, queries>>

\* The tasks a worker thread is running.
Running ==
    UNION {{<<s, nr>> : nr \in {i - 1 : i \in DOMAIN task[s]}} : s \in Streams}
        \cap {p \in Streams \X Int :
                 task[p[1]][p[2] + 1].pc \in {"assert", "inc", "next", "query"}}

\* A worker thread takes the oldest work item.
TaskStart(s) ==
    /\ workq # << >>
    /\ Head(workq)[1] = s
    /\ Cardinality(Running) < max_workers
    /\ workq' = Tail(workq)
    /\ task' = [task EXCEPT ![s][Head(workq)[2] + 1].pc = "assert"]
    /\ UNCHANGED <<data, failing, qsVars, dbVars, mysqlVars, offset, pending, submit_count,
                   run_count, awaiting, out, writes, queries, chainVars>>

\* __get_next, line 28.
TaskAssert(s, nr) ==
    /\ task[s][nr + 1].pc = "assert"
    /\ task' = [task EXCEPT ![s][nr + 1] =
                   IF nr = run_count[s]
                   THEN [@ EXCEPT !.pc = "inc"]
                   ELSE [@ EXCEPT !.pc = "done", !.res = AssertionError]]
    /\ UNCHANGED <<data, failing, qsVars, dbVars, mysqlVars, offset, pending, submit_count,
                   run_count, awaiting, out, workq, writes, queries, chainVars>>

\* __get_next, line 29.
TaskInc(s, nr) ==
    /\ task[s][nr + 1].pc = "inc"
    /\ run_count' = [run_count EXCEPT ![s] = @ + 1]
    /\ task' = [task EXCEPT ![s][nr + 1].pc = "next"]
    /\ UNCHANGED <<data, failing, qsVars, dbVars, mysqlVars, offset, pending, submit_count,
                   awaiting, out, workq, writes, queries, chainVars>>

\* __get_next, line 30, entering QueryStreamer.__next__, line 93.
TaskOffset(s, nr) ==
    /\ task[s][nr + 1].pc = "next"
    /\ offset' = [offset EXCEPT ![s] = NextOffset(s)]
    /\ task' = [task EXCEPT ![s][nr + 1] =
                   [@ EXCEPT !.pc = "query", !.off = offset[s]]]
    /\ UNCHANGED <<data, failing, qsVars, dbVars, mysqlVars, pending, submit_count, run_count,
                   awaiting, out, workq, writes, queries, chainVars>>

\* QueryStreamer.__next__, lines 96-104; the future is resolved.
TaskQuery(s, nr) ==
    /\ task[s][nr + 1].pc = "query"
    /\ task' = [task EXCEPT ![s][nr + 1] =
                   [@ EXCEPT !.pc = "done", !.res = Fetch(s, task[s][nr + 1].off)]]
    /\ Executed(s, QueryFormat(task[s][nr + 1].off, batch_size[s]))
    /\ UNCHANGED <<data, failing, qsVars, dbVars, mysqlVars, offset, pending, submit_count,
                   run_count, awaiting, out, workq, writes, chainVars>>

TaskNrs(s) == {i - 1 : i \in DOMAIN task[s]}

Next ==
    \/ \E s \in streams : SyncNext(s)
    \/ \E s \in streams : NextCall(s)
    \/ \E s \in streams : NextReturn(s)
    \/ \E s \in streams : TaskStart(s)
    \/ \E s \in streams : \E nr \in TaskNrs(s) : TaskAssert(s, nr)
    \/ \E s \in streams : \E nr \in TaskNrs(s) : TaskInc(s, nr)
    \/ \E s \in streams : \E nr \in TaskNrs(s) : TaskOffset(s, nr)
    \/ \E s \in streams : \E nr \in TaskNrs(s) : TaskQuery(s, nr)

\* next() on the chain while the active page has rows left.
ChainItem(s) ==
    /\ ~batched[s]
    /\ chain[s].active # << >>
    /\ chain' = [chain EXCEPT ![s].active = Tail(@)]
    /\ flat' = [flat EXCEPT ![s] = Append(@, Item(Head(chain[s].active)))]
    /\ UNCHANGED <<data, failing, qsVars, dbVars, mysqlVars, offset, pending, submit_count, run_count,
                   task, awaiting, out, workq, writes, queries>>

\* next() on a chain that has let go of its source; once is enough.
ChainEnded(s) ==
    /\ ~batched[s]
    /\ ~chain[s].source
    /\ chain[s].active = << >>
    /\ flat[s][Len(flat[s])] # StopIteration
    /\ flat' = [flat EXCEPT ![s] = Append(@, StopIteration)]
    /\ UNCHANGED <<data, failing, qsVars, dbVars, mysqlVars, offset, pending, submit_count, run_count,
                   task, awaiting, out, workq, writes, queries, chain>>

\* A client writes a point to the series while it is being streamed.
WritePoints(s) ==
    /\ writes < MaxWrites
    /\ writes' = writes + 1
    /\ data' = [data EXCEPT ![s] = @ + 1]
    /\ UNCHANGED <<streams, failing, qsVars, dbVars, mysqlVars, offset, pending, submit_count,
                   run_count, task, awaiting, out, workq, queries, chainVars>>

(***************************************************************************)
(* Construction.  cfg[s] holds the arguments stream s is built with; the   *)
(* streams are built in the order of their numbers, and a warm start       *)
(* fills the queue in __init__.                                            *)
(***************************************************************************)
Offsets(b) == {k * b : k \in 0 .. MaxPages}

Configs ==
    [data : 0 .. MaxPages * MaxBatch, batch_size : BatchSizes, executor : BOOLEAN,
     warm_start : BOOLEAN, parallelism : 1 .. MaxParallelism,
     failing : {{}} \cup {{o} : o \in 0 .. MaxPages * MaxBatch},
     batched : BOOLEAN]

Unbuilt ==
    [data |-> 0, batch_size |-> 1, executor |-> FALSE, warm_start |-> FALSE,
     parallelism |-> 1, failing |-> {}, batched |-> TRUE]

\* Mutant: the queue filled in __init__ whatever warm_start says.
WarmCountAlways(c) == IF c.executor THEN FillCount(<< >>, c.parallelism) ELSE 0

\* __init__, lines 16-17: the tasks a warm start submits.
WarmCount(c) ==
    IF c.executor /\ c.warm_start THEN FillCount(<< >>, c.parallelism) ELSE 0

RECURSIVE WarmQueue(_, _)
WarmQueue(cfg, s) ==
    IF s = 0 THEN << >>
    ELSE WarmQueue(cfg, s - 1) \o [i \in 1 .. WarmCount(cfg[s]) |-> <<s, i - 1>>]

\* mysql.connect() is not in use.
NoConnection ==
    [pc |-> "unused", fails |-> {}, calls |-> << >>, block |-> "", raised |-> ""]

InitFrom(S, cfg, w) ==
    /\ streams = S
    /\ data = [s \in Streams |-> cfg[s].data]
    /\ failing = [s \in Streams |-> cfg[s].failing]
    /\ batch_size = [s \in Streams |-> cfg[s].batch_size]
    /\ offset = [s \in Streams |-> 0]
    /\ executor = [s \in Streams |-> cfg[s].executor]
    /\ warm_start = [s \in Streams |-> cfg[s].warm_start]
    /\ parallelism = [s \in Streams |-> cfg[s].parallelism]
    /\ max_workers = w
    /\ pending = [s \in Streams |-> SubSeq(Filled(<< >>, 0, cfg[s].parallelism), 1, WarmCount(cfg[s]))]
    /\ submit_count = [s \in Streams |-> WarmCount(cfg[s])]
    /\ run_count = [s \in Streams |-> 0]
    /\ task = [s \in Streams |-> [i \in 1 .. WarmCount(cfg[s]) |-> NewTask]]
    /\ awaiting = [s \in Streams |-> NoTask]
    /\ out = [s \in Streams |-> << >>]
    /\ workq = WarmQueue(cfg, MaxStreams)
    /\ writes = 0
    /\ queries = [s \in Streams |-> EmptyBag]
    /\ batched = [s \in Streams |-> cfg[s].batched]
    /\ chain = [s \in Streams |-> IF cfg[s].batched THEN NoChain ELSE NewChain]
    /\ flat = [s \in Streams |-> << >>]

\* The stream is built by stream_query, stream_measurement is not called.
NoMeasurement ==
    db = << >> /\ where = << >> /\ returned = << >> /\ connection = NoConnection

\* One stream of pages over one series.
Init ==
    \E c \in Configs, w \in 1 .. MaxWorkers :
        /\ c.batched
        /\ c.failing \subseteq Offsets(c.batch_size) \cap (0 .. c.data)
        /\ c.data <= MaxPages * c.batch_size
        /\ ~c.executor => c.parallelism = 1 /\ ~c.warm_start /\ w = 1
        /\ InitFrom({1}, [s \in Streams |-> IF s = 1 THEN c ELSE Unbuilt], w)
        /\ NoMeasurement

Spec == Init /\ [][Next]_vars

\* The same, with the series written to while it is streamed.
LiveNext == Next \/ \E s \in streams : WritePoints(s)

LiveSpec == Init /\ [][LiveNext]_vars

\* stream_query, line 174: the look-ahead of a stream with an executor.
StreamParallelism == 2

\* stream_query, lines 154-176: one stream, of pages or of rows, as the
\* client assembles it.
StreamInit ==
    \E c \in Configs, w \in 1 .. MaxWorkers :
        /\ c.failing \subseteq Offsets(c.batch_size) \cap (0 .. c.data)
        /\ c.data <= MaxPages * c.batch_size
        /\ c.executor => c.parallelism = StreamParallelism /\ c.warm_start
        /\ ~c.executor => c.parallelism = 1 /\ ~c.warm_start /\ w = 1
        /\ InitFrom({1}, [s \in Streams |-> IF s = 1 THEN c ELSE Unbuilt], w)
        /\ NoMeasurement

StreamNext ==
    \/ Next
    \/ \E s \in streams : ChainItem(s)
    \/ \E s \in streams : ChainEnded(s)

StreamSpec == StreamInit /\ [][StreamNext]_vars

(***************************************************************************)
(* Partition discovery: list_series and stream_measurement.  A string is   *)
(* the sequence of its characters; the fixed text of a query template is   *)
(* kept in one piece.  The measurement is "m", a series of it has a list   *)
(* of tags [k, v] and a number of rows.                                    *)
(***************************************************************************)
Range(f) == {f[i] : i \in DOMAIN f}

\* str.split(sep)
RECURSIVE Split(_, _)
Split(str, sep) ==
    IF sep \notin Range(str) THEN << str >>
    ELSE LET i == CHOOSE i \in 1 .. Len(str) :
                      str[i] = sep /\ \A j \in 1 .. i - 1 : str[j] # sep
         IN  << SubSeq(str, 1, i - 1) >> \o Split(SubSeq(str, i + 1, Len(str)), sep)

\* sep.join(strs)
RECURSIVE Join(_, _)
Join(sep, strs) ==
    IF strs = << >> THEN << >>
    ELSE IF Len(strs) = 1 THEN strs[1]
    ELSE strs[1] \o sep \o Join(sep, Tail(strs))

\* The unpacking k, v = ... of a list that does not hold two items.
ValueError == << "ValueError" >>

\* influxdb.py:61-63
series_tag_to_selector(p) ==
    LET kv == Split(p, "=")
    IN  IF Len(kv) # 2 THEN ValueError
        ELSE kv[1] \o <<":", ":", "t", "a", "g", "=", "'">> \o kv[2] \o <<"'">>

\* Mutant: the empty selectors are kept.
join_selectors_all(selectors) ==
    IF ValueError \in Range(selectors) THEN ValueError
    ELSE LET wrapped == [i \in DOMAIN selectors |-> <<"(">> \o selectors[i] \o <<")">>]
         IN  IF Len(wrapped) = 1 THEN wrapped[1]
             ELSE Join(<<" ", "A", "N", "D", " ">>, wrapped)

\* Mutant: the selectors joined last to first.
join_selectors_reversed(selectors) ==
    IF ValueError \in Range(selectors) THEN ValueError
    ELSE LET given == SelectSeq(selectors, LAMBDA w : w # << >>)
             wrapped == [i \in DOMAIN given |->
                            <<"(">> \o given[Len(given) + 1 - i] \o <<")">>]
         IN  IF Len(wrapped) = 1 THEN wrapped[1]
             ELSE Join(<<" ", "A", "N", "D", " ">>, wrapped)

\* influxdb.py:75-79; a selector that raises while the list is built ends
\* the call.
join_selectors(selectors) ==
    IF ValueError \in Range(selectors) THEN ValueError
    ELSE LET given == SelectSeq(selectors, LAMBDA w : w # << >>)
             wrapped == [i \in DOMAIN given |-> <<"(">> \o given[i] \o <<")">>]
         IN  IF Len(wrapped) = 1 THEN wrapped[1]
             ELSE Join(<<" ", "A", "N", "D", " ">>, wrapped)

\* The key SHOW SERIES reports for a series: m,k=v,...
SeriesKey(tags) ==
    <<"m">> \o Join(<< >>, [i \in DOMAIN tags |->
                              <<",">> \o tags[i].k \o <<"=">> \o tags[i].v])

\* list_series, line 124: the keys of the series of the measurement.
ShowSeries == [j \in DOMAIN db |-> SeriesKey(db[j].tags)]

Ok(val) == [kind |-> "ok", val |-> val]
Failed(exc) == [kind |-> exc, val |-> << >>]

\* list_series, line 125: the tags of one key.
Serie(key) == Tail(Split(key, ","))

\* list_series, line 127: the selector of one series.
SerieSelector(serie) ==
    join_selectors([i \in DOMAIN serie |-> series_tag_to_selector(serie[i])])

\* influxdb.py:122-127
list_series(keys) ==
    LET series == [j \in DOMAIN keys |-> Serie(keys[j])]
    IN  IF \E j \in DOMAIN series : SerieSelector(series[j]) = ValueError
        THEN Failed("ValueError")
        ELSE Ok([j \in DOMAIN series |-> <<series[j], SerieSelector(series[j])>>])

\* stream_params, lines 147-150, with the default fields and group_order_by.
stream_params(w) ==
    <<"SELECT ", "*", " FROM ", "m", " WHERE ">> \o w
        \o <<" GROUP BY ", " LIMIT {limit} OFFSET {offset}">>

\* The condition of a query: what stands between WHERE and GROUP BY.
Condition(query) ==
    LET from == CHOOSE i \in DOMAIN query : query[i] = " WHERE "
        to == CHOOSE i \in DOMAIN query : query[i] = " GROUP BY "
    IN  SubSeq(query, from + 1, to - 1)

\* The tag predicates k::tag='v' of a condition.
Predicates(cond) ==
    LET parts == Split(cond, "'")
    IN  {[k |-> IF Len(parts[2 * i - 1]) < 7 THEN << >>
                ELSE << parts[2 * i - 1][Len(parts[2 * i - 1]) - 6] >>,
          v |-> parts[2 * i]] : i \in 1 .. Len(parts) \div 2}

RECURSIVE Sum(_, _)
Sum(f, j) == IF j = 0 THEN 0 ELSE Sum(f, j - 1) + f[j]

\* The rows a query selects: those of every series whose tags meet all the
\* predicates of the condition.
RowsOf(query) ==
    LET preds == Predicates(Condition(query))
    IN  Sum([j \in DOMAIN db |->
                 IF preds \subseteq Range(db[j].tags) THEN db[j].rows ELSE 0],
            Len(db))

\* stream_query, lines 166-172, for each of the first n streams: what the
\* AsyncLookaheadIterator around it is built with.
Built(n) ==
    [s \in Streams |->
        [executor |-> s <= n /\ executor[s], warm_start |-> warm_start[s],
         parallelism |-> parallelism[s]]]

\* influxdb.py:129-139.  Every call lists the series anew and builds a new
\* stream for each of them, in the order they are listed.  With an executor
\* the tasks of the streams of an earlier call would still be running: a
\* second call is followed only without one.
StreamMeasurement ==
    /\ Len(returned) < MaxDiscoveries
    /\ returned # << >> => \A s \in Streams : ~executor[s]
    /\ LET series == list_series(ShowSeries)
           entry(i) == [sname |-> series.val[i][1],
                        sselector |-> series.val[i][2],
                        query |-> stream_params(
                                      join_selectors(<<where, series.val[i][2]>>))]
       IN  IF series.kind # "ok"
           THEN /\ returned' = Append(returned, series)
                /\ UNCHANGED <<streams, data, offset, out, queries, pending,
                               submit_count, run_count, task, awaiting, workq>>
           ELSE /\ returned' = Append(returned, Ok([i \in DOMAIN series.val |-> entry(i)]))
                /\ streams' = DOMAIN series.val
                /\ data' = [s \in Streams |->
                               IF s \in DOMAIN series.val
                               THEN RowsOf(returned'[Len(returned')].val[s].query)
                               ELSE 0]
                /\ offset' = [s \in Streams |-> 0]
                /\ out' = [s \in Streams |-> << >>]
                /\ queries' = [s \in Streams |-> EmptyBag]
                /\ LET cfg == Built(Len(series.val))
                   IN  /\ pending' = [s \in Streams |->
                               SubSeq(Filled(<< >>, 0, parallelism[s]), 1,
                                      WarmCount(cfg[s]))]
                       /\ submit_count' = [s \in Streams |-> WarmCount(cfg[s])]
                       /\ task' = [s \in Streams |->
                               [i \in 1 .. WarmCount(cfg[s]) |-> NewTask]]
                       /\ workq' = WarmQueue(cfg, MaxStreams)
                /\ run_count' = [s \in Streams |-> 0]
                /\ awaiting' = [s \in Streams |-> NoTask]
    /\ UNCHANGED <<failing, batch_size, executor, warm_start, parallelism,
                   max_workers, batched, chainVars, db, where, mysqlVars, writes>>

\* The characters of a tag value, and the tag values.
Chars == {"a", "'", ",", "="}
Values == UNION {[1 .. n -> Chars] : n \in 1 .. MaxValueLen}
TagKeys == <<"k", "h">>

\* The tag lists of a series: no tag, one tag, both tags.
TagLists ==
    {<< >>}
        \cup {<< [k |-> << TagKeys[i] >>, v |-> v] >> : i \in DOMAIN TagKeys, v \in Values}
        \cup {<< [k |-> << TagKeys[1] >>, v |-> v], [k |-> << TagKeys[2] >>, v |-> w] >> :
                  v \in Values, w \in Values}

\* The filters a caller passes: none, or one that holds for every row.
Wheres == {<< >>, << "w" >>}

\* The client of stream_measurement, before the first call.
ClientInit(b) ==
    /\ InitFrom({}, [s \in Streams |-> [Unbuilt EXCEPT !.batch_size = b]], 1)
    /\ connection = NoConnection

\* One series with any tags, any caller filter.
SelectorInit ==
    \E tags \in TagLists, w \in Wheres, b \in BatchSizes :
        /\ db = << [tags |-> tags, rows |-> 0] >>
        /\ where = w
        /\ returned = << >>
        /\ ClientInit(b)

SelectorSpec == SelectorInit /\ [][StreamMeasurement]_vars

\* The series of a measurement whose tag values are plain words.
PlainSeries ==
    {<< [k |-> <<"k">>, v |-> <<"a">>] >>,
     << [k |-> <<"k">>, v |-> <<"b">>] >>,
     << [k |-> <<"k">>, v |-> <<"a">>], [k |-> <<"h">>, v |-> <<"b">>] >>}

\* Up to MaxStreams different series, each with up to MaxPages rows.
MeasurementInit ==
    \E n \in 0 .. Min(MaxStreams, Cardinality(PlainSeries)), w \in Wheres :
        \E tags \in [1 .. n -> PlainSeries], rows \in [1 .. n -> 0 .. MaxPages] :
            /\ \A i, j \in 1 .. n : tags[i] = tags[j] => i = j
            /\ db = [j \in 1 .. n |-> [tags |-> tags[j], rows |-> rows[j]]]
            /\ where = w
            /\ returned = << >>
            /\ ClientInit(MaxBatch)

\* The consumer chains the streams of the entries: it pulls a stream when
\* the streams before it have ended, until it ends.
ChainedNext(s) ==
    /\ \A r \in streams : r < s => (out[r] # << >> /\ out[r][Len(out[r])] = StopIteration)
    /\ IF out[s] = << >> THEN TRUE ELSE out[s][Len(out[s])].kind = "page"
    /\ SyncNext(s)

MeasurementNext ==
    \/ StreamMeasurement
    \/ \E s \in streams : ChainedNext(s)

MeasurementSpec == MeasurementInit /\ [][MeasurementNext]_vars

\* Two series that share their tag key, and the rows a series has.
PoolSeries ==
    << << [k |-> <<"k">>, v |-> <<"a">>] >>, << [k |-> <<"k">>, v |-> <<"b">>] >> >>
PoolRows == {0, 1}

\* The offsets at which the queries of a series fail: none, or the first.
PoolFailing == {{}, {0}}

\* A client with or without an async executor of w threads, before its
\* call of stream_measurement; stream_query gives every stream of a client
\* with an executor a warm start and the same look-ahead.
PoolInit ==
    \E n \in 0 .. Len(PoolSeries), e \in BOOLEAN, w \in 1 .. MaxWorkers :
        \E rows \in [1 .. n -> PoolRows], fails \in [1 .. n -> PoolFailing] :
            /\ ~e => w = 1
            /\ db = [j \in 1 .. n |-> [tags |-> PoolSeries[j], rows |-> rows[j]]]
            /\ where = << >>
            /\ returned = << >>
            /\ connection = NoConnection
            /\ streams = {}
            /\ data = [s \in Streams |-> 0]
            /\ failing = [s \in Streams |-> IF s <= n THEN fails[s] ELSE {}]
            /\ batch_size = [s \in Streams |-> 1]
            /\ offset = [s \in Streams |-> 0]
            /\ executor = [s \in Streams |-> e]
            /\ warm_start = [s \in Streams |-> e]
            /\ parallelism = [s \in Streams |-> IF e THEN StreamParallelism ELSE 1]
            /\ max_workers = w
            /\ pending = [s \in Streams |-> << >>]
            /\ submit_count = [s \in Streams |-> 0]
            /\ run_count = [s \in Streams |-> 0]
            /\ task = [s \in Streams |-> << >>]
            /\ awaiting = [s \in Streams |-> NoTask]
            /\ out = [s \in Streams |-> << >>]
            /\ workq = << >>
            /\ writes = 0
            /\ queries = [s \in Streams |-> EmptyBag]
            /\ batched = [s \in Streams |-> TRUE]
            /\ chain = [s \in Streams |-> NoChain]
            /\ flat = [s \in Streams |-> << >>]

\* The streams of the entries are pulled in any order while the executor
\* runs their tasks.
PoolNext == StreamMeasurement \/ Next

PoolSpec == PoolInit /\ [][PoolNext]_vars

(***************************************************************************)
(* Iterators on one executor whose threads run the submitted tasks fairly, *)
(* each with a consumer that keeps calling next().                         *)
(***************************************************************************)
\* The rows of the finite sources, the look-ahead of the iterators and the
\* threads of the executor: fewer threads than tasks ahead, and as many.
FairRows == {0, 1}
FairParallelism == {1, 2}
FairWorkers == {1, 2}
FairStreams == {1, 2}

\* One iterator, or two alike, on one executor of w threads.
FairInit ==
    \E S \in {{1}, FairStreams}, rows \in FairRows, p \in FairParallelism,
       ws \in BOOLEAN, w \in FairWorkers :
        /\ InitFrom(S, [s \in Streams |->
                           IF s \in S
                           THEN [Unbuilt EXCEPT !.data = rows, !.executor = TRUE,
                                                !.warm_start = ws, !.parallelism = p]
                           ELSE Unbuilt], w)
        /\ NoMeasurement

\* __next__ of iterator s, called and returning.
Consumer(s) == NextCall(s) \/ NextReturn(s)

\* A thread of the executor running __get_next for iterator s.
Worker(s) ==
    \E nr \in TaskNrs(s) :
        TaskAssert(s, nr) \/ TaskInc(s, nr) \/ TaskOffset(s, nr) \/ TaskQuery(s, nr)

FairNext ==
    \/ \E s \in streams : Consumer(s)
    \/ \E s \in streams : TaskStart(s)
    \/ \E s \in streams : Worker(s)

\* The executor takes up every task submitted and its threads go on running;
\* every consumer goes on calling next().
Fairness ==
    \A s \in FairStreams :
        /\ WF_vars(Consumer(s))
        /\ WF_vars(TaskStart(s))
        /\ WF_vars(Worker(s))

FairSpec == FairInit /\ [][FairNext]_vars /\ Fairness

(***************************************************************************)
(* mysql.connect(), the context manager around one connection.  The block  *)
(* it manages calls the connection and then returns or raises; calls       *)
(* records the calls on the connection in order, with who made them.       *)
(* rollback() and close() talk to the server and can raise themselves.     *)
(***************************************************************************)
BlockMethods == {"query", "commit"}
BlockExceptions == {"Warning", "OperationalError", "KeyboardInterrupt"}
ExitMethods == {"rollback", "close"}

Call(by, method) == [by |-> by, method |-> method]

\* What a method called by connect() raises, if it does.
ErrorOf(method) == method \o " failed"

\* mysql.py:49-54, up to the yield.
Connect ==
    /\ connection.pc = "start"
    /\ connection' = [connection EXCEPT !.pc = "block"]
    /\ UNCHANGED influxVars

\* A statement of the managed block.
BlockCall(method) ==
    /\ connection.pc = "block"
    /\ Len(connection.calls) < MaxStatements
    /\ connection' = [connection EXCEPT !.calls = Append(@, Call("block", method))]
    /\ UNCHANGED influxVars

\* mysql.py:58-61, the finally clause: close(), and what leaves it when exc
\* was on its way.
Finally(calls, exc) ==
    [calls |-> Append(calls, Call("connect", "close")),
     raised |-> IF "close" \in connection.fails THEN ErrorOf("close") ELSE exc]

\* mysql.py:55-57, the except clause: rollback(), then raise.
Except(calls, exc) ==
    [calls |-> Append(calls, Call("connect", "rollback")),
     raised |-> IF "rollback" \in connection.fails THEN ErrorOf("rollback") ELSE exc]

\* The block ends normally: the generator runs on into finally.
BlockReturns ==
    /\ connection.pc = "block"
    /\ LET f == Finally(connection.calls, "")
       IN  connection' = [connection EXCEPT !.pc = "done", !.block = "returned",
                                             !.calls = f.calls, !.raised = f.raised]
    /\ UNCHANGED influxVars

\* The block raises exc: it is thrown into the generator at the yield.
BlockRaises(exc) ==
    /\ connection.pc = "block"
    /\ LET e == Except(connection.calls, exc)
           f == Finally(e.calls, e.raised)
       IN  connection' = [connection EXCEPT !.pc = "done", !.block = exc,
                                             !.calls = f.calls, !.raised = f.raised]
    /\ UNCHANGED influxVars

ConnectInit ==
    /\ \E fails \in SUBSET ExitMethods :
           connection = [NoConnection EXCEPT !.pc = "start", !.fails = fails]
    /\ InitFrom({}, [s \in Streams |-> Unbuilt], 1)
    /\ db = << >> /\ where = << >> /\ returned = << >>

ConnectNext ==
    \/ Connect
    \/ \E method \in BlockMethods : BlockCall(method)
    \/ BlockReturns
    \/ \E exc \in BlockExceptions : BlockRaises(exc)

ConnectSpec == ConnectInit /\ [][ConnectNext]_vars

(***************************************************************************)
(* Properties.                                                             *)
(***************************************************************************)
\* The k-th item (from 1) of a synchronous traversal of the series of s.
ExpectedItem(s, k) ==
    LET b == batch_size[s]
        off == (k - 1) * b
    IN  IF off \in failing[s] THEN QueryExecutionError
        ELSE IF off < data[s]
             THEN Return([i \in 1 .. Min(b, data[s] - off) |-> off + i])
             ELSE StopIteration

\* No call before the k-th signalled the end of the sequence.
UpToEnd(s, k) == \A j \in 1 .. k - 1 : out[s][j] # StopIteration

\* The calls of next() that took a future off the queue.
Taken(s) ==
    Cardinality({k \in 1 .. Len(out[s]) : out[s][k] # AttributeError})
        + (IF awaiting[s] = NoTask THEN 0 ELSE 1)

AllPages(q) == \A k \in 1 .. Len(q) : q[k].kind = "page"

\* C1: up to the end of the sequence the calls of next() on an
\* AsyncLookaheadIterator return, item for item, what a synchronous traversal
\* of the source returns, for every parallelism and every pool size.
C1_SameAsSynchronous ==
    \A s \in streams :
        executor[s] =>
            \A k \in 1 .. Len(out[s]) :
                UpToEnd(s, k) => out[s][k] = ExpectedItem(s, k)

\* C2: the window holds at most parallelism pending tasks, and these are the
\* tasks submitted and not yet taken by next().
C2_WindowBound ==
    \A s \in streams :
        (executor[s] /\ pending[s] # None) =>
            /\ Len(pending[s]) <= parallelism[s]
            /\ submit_count[s] - Taken(s) = Len(pending[s])

C2_Witness ==
    /\ executor[1] /\ parallelism[1] = 2
    /\ pending[1] # None /\ Len(pending[1]) = 2
    /\ Len(out[1]) >= 2

\* C3: the assertion of the fetch task never fails, whatever the pool size
\* and the interleaving of the worker threads.
C3_AssertionNeverFails ==
    \A s \in streams :
        \A i \in DOMAIN task[s] : task[s][i].res # AssertionError

\* C4: before exhaustion the k-th call of next() (from 0) waits on task k,
\* which is older than every pending task, and returns the result of task k.
C4_OldestFirst ==
    \A s \in streams :
        executor[s] =>
            /\ awaiting[s] # NoTask =>
                   /\ awaiting[s] = Len(out[s])
                   /\ \A i \in 1 .. Len(pending[s]) :
                          pending[s][i] = awaiting[s] + i
            /\ \A k \in 1 .. Len(out[s]) :
                   UpToEnd(s, k) =>
                       /\ task[s][k].pc = "done"
                       /\ out[s][k] = task[s][k].res

\* The second call waits on task 1 although task 2 has already completed.
C4_Witness ==
    /\ executor[1]
    /\ awaiting[1] = 1
    /\ task[1][2].pc # "done"
    /\ Len(task[1]) >= 3 /\ task[1][3].pc = "done" /\ task[1][3].res.kind = "page"

\* C5: when the awaited task ended with StopIteration, next() raises it and
\* drops the queue; once the queue is dropped no task is submitted any more.
C5_ExhaustedStaysExhausted ==
    [][\A s \in streams :
          /\ ( /\ awaiting[s] # NoTask
               /\ awaiting'[s] = NoTask
               /\ task[s][awaiting[s] + 1].res = StopIteration )
                 => /\ out'[s] = Append(out[s], StopIteration)
                    /\ pending'[s] = None
          /\ pending[s] = None
                 => /\ pending'[s] = None
                    /\ submit_count'[s] = submit_count[s]
                    /\ Len(task'[s]) = Len(task[s])
                    /\ Len(SelectSeq(workq', LAMBDA e : e[1] = s))
                           <= Len(SelectSeq(workq, LAMBDA e : e[1] = s))
      ]_vars

\* next() was called again after the end was signalled.
C5_Witness ==
    /\ executor[1]
    /\ pending[1] = None
    /\ Len(out[1]) >= 3
    /\ out[1][Len(out[1]) - 1] = StopIteration
    /\ out[1][1].kind = "page"

\* C6: when the source fails on its K-th item, the calls before the K-th
\* return the items before it and the K-th call raises the error.
C6_ErrorAtKthCall ==
    \A s \in streams :
        (executor[s] /\ failing[s] # {}) =>
            LET K == (CHOOSE o \in failing[s] : TRUE) \div batch_size[s] + 1
            IN  \A k \in 1 .. Len(out[s]) :
                    /\ k < K => /\ out[s][k].kind = "page"
                                /\ out[s][k].rows[1] = (k - 1) * batch_size[s] + 1
                    /\ k = K => out[s][k] = QueryExecutionError

\* C7: over a series that does not change and whose queries succeed,
\* QueryStreamer yields the non-empty pages in offset order and then signals
\* the end; no page is lost or added at the boundary.
C7_PagesInOffsetOrder ==
    \A s \in streams :
        (~executor[s] /\ failing[s] = {}) =>
            \A k \in 1 .. Len(out[s]) :
                LET b == batch_size[s]
                    off == (k - 1) * b
                IN  IF off < data[s]
                    THEN /\ out[s][k].kind = "page"
                         /\ out[s][k].rows =
                                [i \in 1 .. Min(b, data[s] - off) |-> off + i]
                    ELSE out[s][k] = StopIteration

\* batch_size 2 over 5 rows: three pages, then the end.
C7_Witness ==
    /\ ~executor[1] /\ failing[1] = {}
    /\ batch_size[1] = 2 /\ data[1] = 5
    /\ Len(out[1]) = 4
    /\ out[1][3] = Return(<<5>>)
    /\ out[1][4] = StopIteration

\* C8: once a QueryStreamer signalled the end, every later call signals it
\* too, whatever the later queries return.
C8_NotRestartable ==
    \A s \in streams :
        ~executor[s] =>
            \A j \in 1 .. Len(out[s]) : \A k \in j .. Len(out[s]) :
                out[s][j] = StopIteration => out[s][k] = StopIteration

\* C9, as claimed: a consumer that stops after successful pulls leaves at
\* most parallelism - 1 submitted fetches unconsumed.
C9_AtMostNMinusOne ==
    \A s \in streams :
        (executor[s] /\ awaiting[s] = NoTask /\ out[s] # << >> /\ AllPages(out[s])) =>
            submit_count[s] - Len(out[s]) <= parallelism[s] - 1

\* C9, amended: it leaves at most parallelism submitted fetches unconsumed.
C9_AtMostN ==
    \A s \in streams :
        (executor[s] /\ awaiting[s] = NoTask /\ AllPages(out[s])) =>
            submit_count[s] - Len(out[s]) <= parallelism[s]

C9_Witness ==
    /\ executor[1] /\ awaiting[1] = NoTask
    /\ Len(out[1]) >= 1 /\ AllPages(out[1])
    /\ parallelism[1] = 2
    /\ submit_count[1] - Len(out[1]) = 2

\* C10: before the first call of next(), a warm-started iterator has
\* submitted parallelism tasks, and one that is not warm-started has
\* submitted none and has not pulled the source.
C10_WarmStart ==
    \A s \in streams :
        (executor[s] /\ Calls(s) = 0) =>
            IF warm_start[s]
            THEN /\ submit_count[s] = parallelism[s]
                 /\ Len(pending[s]) = parallelism[s]
                 /\ Len(task[s]) = parallelism[s]
            ELSE /\ submit_count[s] = 0
                 /\ task[s] = << >>
                 /\ workq = << >>
                 /\ offset[s] = 0 /\ run_count[s] = 0

\* A page is already fetched when next() is called for the first time.
C10_Witness ==
    /\ executor[1] /\ warm_start[1] /\ parallelism[1] = 2
    /\ Calls(1) = 0
    /\ task[1][1].pc = "done" /\ task[1][1].res.kind = "page"

Last(q) == q[Len(q)]

\* C11: a call of QueryStreamer.next() whose query fails has executed that
\* one query once and raises the failure as it is; the calls before it gave
\* their pages.
C11_FailureNotRetried ==
    \A s \in streams :
        ~executor[s] =>
            /\ BagCardinality(queries[s]) = Len(out[s])
            /\ \A k \in 1 .. Len(out[s]) :
                   LET off == (k - 1) * batch_size[s]
                   IN  /\ CopiesIn(QueryFormat(off, batch_size[s]), queries[s]) = 1
                       /\ off \in failing[s] => out[s][k] = QueryExecutionError
                       /\ (off \notin failing[s] /\ off < data[s]) =>
                              /\ out[s][k].kind = "page"
                              /\ out[s][k].rows[1] = off + 1

\* A page, the failure, and the page after it.
C11_Witness ==
    /\ ~executor[1]
    /\ Len(out[1]) >= 3
    /\ out[1][1].kind = "page"
    /\ out[1][2] = QueryExecutionError
    /\ out[1][3].kind = "page"

\* C18, as claimed: call k of QueryStreamer.next() executes the one query
\* with offset k * batch_size and limit batch_size, batch_size never changes,
\* and the offset advances only on a call that returns a page.
C18_OffsetAdvancesOnPageOnly ==
    [][\A s \in streams :
          (~executor[s] /\ out'[s] # out[s]) =>
              /\ queries'[s] = queries[s] (+) SetToBag(
                     {QueryFormat(Len(out[s]) * batch_size[s], batch_size[s])})
              /\ batch_size'[s] = batch_size[s]
              /\ offset'[s] # offset[s] => Last(out'[s]).kind = "page"
      ]_vars

\* C18, amended: the offset advances by batch_size on every call.
C18_OffsetAdvancesOnEveryCall ==
    [][\A s \in streams :
          (~executor[s] /\ out'[s] # out[s]) =>
              /\ queries'[s] = queries[s] (+) SetToBag(
                     {QueryFormat(Len(out[s]) * batch_size[s], batch_size[s])})
              /\ batch_size'[s] = batch_size[s]
              /\ offset'[s] = offset[s] + batch_size[s]
      ]_vars

\* The call that signalled the end has advanced the offset too.
C18_Witness ==
    /\ ~executor[1] /\ batch_size[1] = 2
    /\ Len(out[1]) >= 2
    /\ Last(out[1]) = StopIteration
    /\ offset[1] = 2 * Len(out[1])

\* C19: a page that next() returns hands out every row of the fetched page
\* once and in order, the row that was peeked at included.
C19_PeekConsumesNothing ==
    \A s \in streams :
        \A k \in 1 .. Len(out[s]) :
            out[s][k].kind = "page" =>
                LET rows == out[s][k].rows
                IN  /\ rows # << >>
                    /\ LET off == rows[1] - 1
                       IN  /\ off % batch_size[s] = 0
                           /\ off \in {q.offset : q \in BagToSet(queries[s])}
                           /\ Len(rows) = Min(batch_size[s], data[s] - off)
                           /\ \A i \in 1 .. Len(rows) : rows[i] = off + i

\* A full page of two rows was returned.
C19_Witness ==
    /\ Len(out[1]) >= 1
    /\ out[1][1] = Return(<<1, 2>>)

\* C20: a call of next() whose task failed raises the failure and leaves the
\* queue and the counters as they are; the call after it waits on the task
\* with the next number.
C20_FailureDoesNotEndIterator ==
    [][\A s \in streams :
          executor[s] =>
              /\ ( /\ awaiting[s] # NoTask
                   /\ awaiting'[s] = NoTask
                   /\ task[s][awaiting[s] + 1].res.kind
                          \notin {"page", "StopIteration"} )
                     => /\ out'[s] = Append(out[s], task[s][awaiting[s] + 1].res)
                        /\ pending'[s] = pending[s]
                        /\ pending'[s] # None
                        /\ awaiting[s] \notin {pending'[s][i] : i \in DOMAIN pending'[s]}
                        /\ submit_count'[s] = submit_count[s]
                        /\ Len(task'[s]) = Len(task[s])
              /\ ( /\ awaiting[s] = NoTask
                   /\ awaiting'[s] # NoTask
                   /\ out[s] # << >>
                   /\ Last(out[s]).kind \notin {"page", "StopIteration"} )
                     => /\ awaiting'[s] = Len(out[s])
                        /\ \A i \in DOMAIN pending'[s] :
                               pending'[s][i] = awaiting'[s] + i
      ]_vars

\* A page, the failure, and the page after it.
C20_Witness ==
    /\ executor[1]
    /\ Len(out[1]) >= 3
    /\ out[1][1].kind = "page"
    /\ out[1][2] = QueryExecutionError
    /\ out[1][3].kind = "page"

\* C12: over a source whose queries succeed, a stream built with batched
\* False hands out the rows of the pages one after the other, page by page,
\* and a stream built with batched True hands out the pages, with an
\* executor or without.
C12_FlatRowsOrPages ==
    \A s \in streams :
        failing[s] = {} =>
            /\ batched[s] =>
                   \A k \in 1 .. Len(out[s]) :
                       k <= NumPages(data[s], batch_size[s]) + 1 =>
                           out[s][k] = ExpectedItem(s, k)
            /\ ~batched[s] =>
                   \A i \in 1 .. Len(flat[s]) :
                       /\ i <= data[s] => flat[s][i] = Item(i)
                       /\ i = data[s] + 1 => flat[s][i] = StopIteration

\* The tags of a series as list_series names them: k=v, in the order of the key.
TagNames(tags) == [i \in DOMAIN tags |-> tags[i].k \o <<"=">> \o tags[i].v]

\* The pages of a series of n rows in pages of b, and the end after them.
SeriesItem(n, b, k) ==
    IF (k - 1) * b < n THEN Return(Select(n, b, (k - 1) * b)) ELSE StopIteration

\* C13: every call of stream_measurement returns one entry per series, in
\* the order the series were listed (none for a measurement without
\* series); the streams of the entries, pulled one after the other, give
\* the pages of the first series, then of the second, then of the third.
C13_OneEntryPerPartition ==
    /\ \A c \in DOMAIN returned :
           /\ returned[c].kind = "ok"
           /\ Len(returned[c].val) = Len(db)
           /\ \A j \in DOMAIN db :
                  /\ returned[c].val[j].sname = TagNames(db[j].tags)
                  /\ Predicates(returned[c].val[j].sselector) = Range(db[j].tags)
                  /\ Predicates(Condition(returned[c].val[j].query)) = Range(db[j].tags)
    /\ returned # << >> => streams = DOMAIN db
    /\ \A s \in streams :
           /\ \A k \in DOMAIN out[s] :
                  out[s][k] = SeriesItem(db[s].rows, batch_size[s], k)
           /\ out[s] # << >> =>
                  \A r \in streams : r < s =>
                      Len(out[r]) = NumPages(db[r].rows, batch_size[r]) + 1


\* The entries of the calls of stream_measurement that returned.
Entries == UNION {Range(returned[c].val) : c \in DOMAIN returned}

\* C14: with a caller filter and a partition filter, the condition of the
\* query of the entry is (callerFilter) AND (partitionFilter).
C14_BothFiltersJoined ==
    \A e \in Entries :
        (where # << >> /\ e.sselector # << >>) =>
            Condition(e.query)
                = <<"(">> \o where \o <<")", " ", "A", "N", "D", " ", "(">>
                      \o e.sselector \o <<")">>

\* A series with two tags, listed for a caller with a filter.
C14_Witness ==
    /\ where # << >>
    /\ \E e \in Entries : Len(e.sname) = 2 /\ e.sselector # << >>

\* The one filter given, when exactly one of the two is.
OneFilter(e) ==
    IF where # << >> /\ e.sselector = << >> THEN << where >>
    ELSE IF where = << >> /\ e.sselector # << >> THEN << e.sselector >>
    ELSE << >>

\* C15, as claimed: with only one of the two filters given, the condition
\* of the query is that filter, character for character.
C15_OneFilterUnmodified ==
    \A e \in Entries :
        OneFilter(e) # << >> => Condition(e.query) = OneFilter(e)[1]

\* C15, amended: with only one of the two filters given, the condition of
\* the query is that filter in one pair of parentheses.
C15_OneFilterInParentheses ==
    \A e \in Entries :
        OneFilter(e) # << >> =>
            Condition(e.query) = <<"(">> \o OneFilter(e)[1] \o <<")">>

\* A series without tags, listed for a caller with a filter.
C15_Witness ==
    /\ where # << >>
    /\ \E e \in Entries : e.sselector = << >> /\ OneFilter(e) = << where >>

\* C16: with neither filter given, the query has a condition, one that
\* holds for every row.
C16_UnrestrictedFilter ==
    \A e \in Entries :
        (where = << >> /\ e.sselector = << >>) => Condition(e.query) # << >>

\* The quotes of a string that no backslash escapes.
Quotes(str) ==
    {i \in DOMAIN str : str[i] = "'" /\ (i = 1 \/ str[i - 1] # "\\")}

\* C17: list_series returns, for every series, its tags in order and a
\* selector with one predicate per tag whose quotes pair up and whose
\* predicates are the tags of the series.
C17_SelectorWellFormed ==
    \A c \in DOMAIN returned :
        /\ returned[c].kind = "ok"
        /\ \A j \in DOMAIN returned[c].val :
               LET e == returned[c].val[j]
               IN  /\ e.sname = TagNames(db[j].tags)
                   /\ Cardinality(Quotes(e.sselector)) = 2 * Len(db[j].tags)
                   /\ Predicates(e.sselector) = Range(db[j].tags)

\* C21: when next() has returned an item, the queue holds parallelism
\* tasks again, and parallelism more tasks have been submitted than calls
\* of next() were made.
C21_ToppedUpOnReturn ==
    \A s \in streams :
        (executor[s] /\ awaiting[s] = NoTask /\ out[s] # << >>
            /\ Last(out[s]).kind = "page") =>
                /\ pending[s] # None
                /\ Len(pending[s]) = parallelism[s]
                /\ submit_count[s] = Len(out[s]) + parallelism[s]

\* An item returned right after a call that raised a failure.
C21_Witness ==
    /\ executor[1] /\ awaiting[1] = NoTask /\ parallelism[1] = 2
    /\ Len(out[1]) = 3
    /\ out[1][2] = QueryExecutionError
    /\ out[1][3].kind = "page"
    /\ submit_count[1] = 5

\* C24: once next() has signalled the end, every later call of next()
\* signals the end again and raises nothing else.
C24_EndSignalledAgain ==
    \A s \in streams :
        executor[s] =>
            \A k \in DOMAIN out[s] :
                out[s][k] = StopIteration =>
                    \A j \in DOMAIN out[s] : j > k => out[s][j] = StopIteration

\* C25: every query of a stream has an offset of its own, below the offset
\* the next call takes, whether the query failed, found nothing or gave a
\* page; the offset of a QueryStreamer called directly is batch_size times
\* the number of calls.
C25_OffsetConsumedOnFailure ==
    \A s \in streams :
        /\ \A q \in BagToSet(queries[s]) :
               /\ CopiesIn(q, queries[s]) = 1
               /\ q.offset < offset[s]
               /\ q.limit = batch_size[s]
        /\ ~executor[s] =>
               /\ offset[s] = Len(out[s]) * batch_size[s]
               /\ \A k \in DOMAIN out[s] :
                      QueryFormat((k - 1) * batch_size[s], batch_size[s])
                          \in BagToSet(queries[s])

\* The query at the first offset failed and the next call gave the page
\* after it.
C25_Witness ==
    /\ ~executor[1] /\ batch_size[1] = 2
    /\ Len(out[1]) = 2
    /\ out[1][1] = QueryExecutionError
    /\ out[1][2] = Return(<<3, 4>>)
    /\ offset[1] = 4

\* The calls connect() itself made on the connection, in order.
ByConnect == SelectSeq(connection.calls, LAMBDA c : c.by = "connect")

\* C27: when the managed block is left, connect() has closed the connection
\* once; after an exception of the block it has called rollback once,
\* before close, and the caller gets that exception; after a normal end it
\* has called neither rollback nor commit.
C27_ClosedOnEveryPath ==
    connection.pc = "done" =>
        IF connection.block = "returned"
        THEN ByConnect = << Call("connect", "close") >>
        ELSE /\ ByConnect = << Call("connect", "rollback"), Call("connect", "close") >>
             /\ connection.raised = connection.block
\* What an iterator and its streamer own: the offset, the queue of pending
\* futures and the two counters.
Own(s) == <<offset[s], pending[s], submit_count[s], run_count[s]>>

\* C22: the streams a stream_measurement call returns start at offset 0,
\* each with its own queue and counters (with an executor, the warm start's
\* two tasks); whatever happens to one stream afterwards (a pull, the end,
\* a failed query, a task of it run by the shared executor) leaves the
\* offset, queue and counters of every other stream as they were.
C22_StreamsIndependent ==
    [][IF returned' # returned
       THEN \A s \in streams' :
                /\ offset'[s] = 0
                /\ run_count'[s] = 0
                /\ pending'[s] = (IF executor[s] THEN <<0, 1>> ELSE << >>)
                /\ submit_count'[s] = Len(pending'[s])
       ELSE \A s \in streams, t \in streams :
                s # t /\ Own(s)' # Own(s) => Own(t)' = Own(t)]_vars

\* One stream of a shared executor is exhausted or has raised its query's
\* failure while the other is still as it was built.
C22_Witness ==
    \E s \in streams, t \in streams :
        /\ s # t
        /\ executor[s] /\ executor[t]
        /\ out[s] # << >>
        /\ Last(out[s]) \in {StopIteration, QueryExecutionError}
        /\ out[t] = << >>
        /\ Own(t) = <<0, <<0, 1>>, 2, 0>>

\* No pull has been made of stream s.
Unpulled(s) == out[s] = << >> /\ awaiting[s] = NoTask

\* The tasks submitted to the executor for the streams, run or not.
Outstanding == UNION {{<<s, i - 1>> : i \in DOMAIN task[s]} : s \in streams}

\* C26: before the first pull of a stream built with an executor exactly two
\* tasks have been submitted for it, and what the two fetch are the pages at
\* offsets 0 and batch_size; while no stream of a stream_measurement call
\* over S partitions has been pulled, 2*S tasks are outstanding; without an
\* executor a stream executes no query before its first pull.
C26_TwoPagesAhead ==
    /\ \A s \in streams :
           Unpulled(s) =>
               IF executor[s]
               THEN /\ submit_count[s] = StreamParallelism
                    /\ Len(task[s]) = StreamParallelism
                    /\ (\A i \in DOMAIN task[s] : task[s][i].pc = "done") =>
                           queries[s] = SetToBag({QueryFormat(0, batch_size[s]),
                                                  QueryFormat(batch_size[s], batch_size[s])})
               ELSE queries[s] = EmptyBag
    /\ (\A s \in streams : Unpulled(s) /\ executor[s]) =>
           Cardinality(Outstanding) = StreamParallelism * Cardinality(streams)

\* The consumer of iterator s has received the end of the sequence.
EndReceived(s) == \E k \in DOMAIN out[s] : out[s][k] = StopIteration

\* C23: on an executor that runs its tasks fairly every call of next()
\* returns or raises, and a consumer that keeps calling receives the end of
\* the finite source, whatever the look-ahead, the number of threads and the
\* number of iterators on the executor.
C23_EveryCallEndsAndEndComes ==
    \A s \in FairStreams :
        /\ (awaiting[s] # NoTask) ~> (awaiting[s] = NoTask)
        /\ (s \in streams) ~> EndReceived(s)

\* Iterator s can no longer run a task: the tasks that are not done are
\* numbered above _run_count and none of them is past its assert, none of
\* the results waiting is the end, and the next task to submit is numbered
\* above _run_count too.
Stuck(s) ==
    /\ pending[s] # None
    /\ submit_count[s] > run_count[s]
    /\ \A nr \in TaskNrs(s) :
           IF task[s][nr + 1].pc = "done"
           THEN nr >= Len(out[s]) => task[s][nr + 1].res # StopIteration
           ELSE task[s][nr + 1].pc \in {"queued", "assert"} /\ nr > run_count[s]
    /\ ~EndReceived(s)

\* Once an iterator is stuck it stays so, whatever the executor and the
\* consumer do: every later call of next() raises AssertionError and none
\* receives the end.
StuckStaysStuck == [][\A s \in FairStreams : Stuck(s) => Stuck(s)']_vars

\* An iterator is stuck after its first page: task 1 failed its assert
\* before task 0 counted itself.
StuckReached ==
    \E s \in streams :
        Stuck(s) /\ out[s] # << >> /\ Last(out[s]) = AssertionError

==============================================================================
